---- MODULE Spec2Model ----
(***************************************************************************)
(* Model of the alert router (AlertsRouter.handle and the domination       *)
(* pathway) and of SmartVolPartialCloseStrategy, the per-(bot,symbol)      *)
(* partial-close strategy.                                                 *)
(*                                                                         *)
(* A strategy call is an async function: it runs without interruption from *)
(* one `await` to the next.  Each action below is "the call a handler is   *)
(* awaiting completes, and the handler runs up to its next await".  The    *)
(* effect of an awaited exchange / store / notify call is recorded when    *)
(* the call completes successfully; a call that fails has no effect and    *)
(* rejects the await (AwaitFails).  A store.findOpen is answered at some   *)
(* moment between the call and the resumption of the handler               *)
(* (findOpenAnswers).                                                      *)
(*                                                                         *)
(*   Spec         strategy calls handled one at a time                     *)
(*   SpecConc     up to MaxInFlight strategy calls interleaving at awaits  *)
(*   SpecRouter   AlertsRouter.handle over a registry of bots              *)
(*   SpecRouterFair  ... every awaited bot call settling                   *)
(*   SpecKeys     strategy calls for pairs whose names hold ':'            *)
(*   SpecClassify toAlert and handle over any request body                 *)
(***************************************************************************)
EXTENDS Integers, Sequences, FiniteSets, TLC

\* ------------------------------------------------------------------ bounds
MaxTicks == 2
MaxInFlight == 2

\* --------------------------------------------------------------- constants
\* blockEntry: Date.now() + 60 * 60 * 1000
HourMs == 60 * 60 * 1000
\* the clock advances in half hours
TickMs == HourMs \div 2
\* bot.cfg.maxFills ?? 4
DefaultMaxFills == 4
\* closeTokens.toFixed(8): order sizes are counted in 1e-8 tokens
Fixed8 == 10 ^ 8

BotNames == {"b1"}
Symbols == {"BTCUSDT"}
Pairs == BotNames \X Symbols
Prices == {100, 200}
\* alert.timeframe; "" stands for an absent (or empty, equally falsy) timeframe
NoTf == ""
Timeframes == {NoTf, "1h", "4h", "15m"}
\* the (bot, alert) arguments of a strategy call
Alerts == [bot : BotNames, symbol : Symbols, tf : Timeframes, price : Prices]
ConcAlerts == [bot : BotNames, symbol : Symbols, tf : {"1h", "4h"}, price : {100}]

\* A JS number: a natural, or NaN / undefined
Num(n) == [nan |-> FALSE, v |-> n]
NaNVal == [nan |-> TRUE, v |-> 0]
\* bot.cfg.maxFills (perhaps absent), bot.baseUsd(), bot.addUsd() and the answer
\* of bot.exchange.isAllowed: a well-configured bot, and the bots that differ
\* from it in one setting
GoodCfg == [maxFills |-> NaNVal, baseUsd |-> Num(2), addUsd |-> Num(1), allowed |-> TRUE]
BotCfgs ==
  {GoodCfg,
   [GoodCfg EXCEPT !.maxFills = Num(2)],
   [GoodCfg EXCEPT !.baseUsd = NaNVal],
   [GoodCfg EXCEPT !.addUsd = NaNVal],
   [GoodCfg EXCEPT !.allowed = FALSE]}

\* ------------------------------------------------------------------- state
VARIABLES
  now,                 \* Date.now()
  botCfg,              \* bot name -> configuration of the bot and its exchange
  store,               \* PositionsStore: pair -> the open position, or NoPos
  partialCloseStates,  \* Map<string, PartialCloseState>
  entryBlockStates,    \* Map<string, EntryBlockState>
  handlers,            \* strategy calls: slot -> its position and locals
  lastSync,            \* history: pair -> time of the last 1h synchronization
  registry,            \* BotsRegistry.all(): sequence of bots
  router               \* AlertsRouter.handle in progress

vars == <<now, botCfg, store, partialCloseStates, entryBlockStates, handlers,
          lastSync, registry, router>>
strategyVars == <<now, botCfg, store, partialCloseStates, entryBlockStates,
                  handlers, lastSync>>
routerVars == <<registry, router>>

\* ----------------------------------------------------------------- helpers
MapSet(m, k, v) == [x \in (DOMAIN m) \cup {k} |-> IF x = k THEN v ELSE m[x]]
MapDelete(m, k) == [x \in (DOMAIN m) \ {k} |-> m[x]]
EmptyMap == [x \in {} |-> 0]

getStateKey(botName, symbol) == botName \o ":" \o symbol

\* (mutant of TimeframeOrDefault) the alert's timeframe is not read
TimeframeIgnored(tf) == "1h"

\* alert.timeframe || '1h'
TimeframeOrDefault(tf) == IF tf = NoTf THEN "1h" ELSE tf

\* (mutant of MaxFillsOf) the limit is compared with > instead of >=
MaxFillsOffByOne(b) ==
  (IF botCfg[b].maxFills.nan THEN DefaultMaxFills ELSE botCfg[b].maxFills.v) + 1

\* bot.cfg.maxFills ?? 4
MaxFillsOf(b) ==
  IF botCfg[b].maxFills.nan THEN DefaultMaxFills ELSE botCfg[b].maxFills.v

\* (mutant of IsBadUsd) `usd === 0` instead: NaN and undefined pass
IsZeroUsd(u) == ~u.nan /\ u.v = 0

\* !usd || isNaN(usd)
IsBadUsd(u) == u.v = 0 \/ u.nan

\* ------------------------------------------------------- positions store
NoPos == [isOpen |-> FALSE, fillsCount |-> 0, avgEntryPrice |-> 0, amountUsd |-> 0]

findOpen(b, s) == store[<<b, s>>]

\* store.open(bot, symbol, price, usd): a new open position with one fill
StoreOpen(price, usd) ==
  [isOpen |-> TRUE, fillsCount |-> 1, avgEntryPrice |-> price, amountUsd |-> usd]

\* store.add(position, price, usd): one more fill; the average entry price is
\* the notional over the tokens held
StoreAdd(pos, price, usd) ==
  [pos EXCEPT !.fillsCount = @ + 1,
              !.amountUsd = @ + usd,
              !.avgEntryPrice =
                 ((pos.amountUsd + usd) * pos.avgEntryPrice * price)
                   \div (pos.amountUsd * price + usd * pos.avgEntryPrice)]

\* exchange.calcSizeFromUsd(symbolId, price, usd), in 1e-8 tokens
calcSizeFromUsd(price, usd) ==
  IF usd.nan THEN NaNVal ELSE Num((usd.v * Fixed8) \div price)

\* (mutant of CloseTokens) the whole notional instead of half of it
CloseTokensAll(pos) ==
  (2 * pos.amountUsd * Fixed8 + pos.avgEntryPrice) \div (2 * pos.avgEntryPrice)

\* (amountUsd * 0.5 / avgEntryPrice).toFixed(8), in 1e-8 tokens, rounded to nearest
CloseTokens(pos) ==
  (2 * pos.amountUsd * Fixed8 + 2 * pos.avgEntryPrice) \div (4 * pos.avgEntryPrice)

\* ----------------------------------------------------------------- effects
PlaceMarket(side, size) == [op |-> "placeMarket", side |-> side, size |-> size]
FlashClose == [op |-> "flashClose", side |-> "long", size |-> NaNVal]
StoreOp(name) == [op |-> name, side |-> "", size |-> NaNVal]
Notify(tag) == [op |-> "notify", side |-> tag, size |-> NaNVal]

ExchangeOps == {"placeMarket", "flashClose"}
StoreOps == {"store.open", "store.add", "store.close"}

\* ------------------------------------------------------- strategy calls
Methods ==
  {"onOpen", "onAdd", "onClose", "onBigClose", "onBigAdd", "onSmartVolumeOpen",
   "onBullishVolume", "onVolumeUp", "onFixedShortSynchronization",
   "onLiveShortSynchronization"}

NoPre == [pos |-> NoPos, closeCount |-> -1, blockedUntil |-> -1, at |-> 0]

Idle ==
  [pc |-> "idle", method |-> "", bot |-> "", symbol |-> "", tf |-> NoTf, price |-> 0,
   existing |-> NoPos, existingLive |-> FALSE, fetched |-> FALSE, stateLive |-> FALSE,
   size |-> NaNVal,
   note |-> "", eff |-> <<>>, result |-> "none", failedAt |-> "", pre |-> NoPre]

\* blockedUntil of a key, -1 when the key has no EntryBlockState
BlockedUntilOf(key) ==
  IF key \in DOMAIN entryBlockStates
  THEN entryBlockStates[key].blockedUntil
  ELSE -1

\* smartVolCloseCount of a key, -1 when the key has no PartialCloseState
CloseCountOf(key) ==
  IF key \in DOMAIN partialCloseStates
  THEN partialCloseStates[key].smartVolCloseCount
  ELSE -1

\* A call of `method` with (bot, alert) enters at `pc`
Call(method, b, s, tf, price, pc) ==
  [Idle EXCEPT !.pc = pc, !.method = method, !.bot = b, !.symbol = s, !.tf = tf,
               !.price = price,
               !.pre = [pos |-> store[<<b, s>>],
                        closeCount |-> CloseCountOf(getStateKey(b, s)),
                        blockedUntil |-> BlockedUntilOf(getStateKey(b, s)),
                        at |-> now]]

InFlight(r) == r.pc \notin {"idle", "done"}
KeyOf(r) == getStateKey(r.bot, r.symbol)
PairOf(r) == <<r.bot, r.symbol>>

\* the call moves to its next await, its pending call having had effect e
Await(r, pc, e) == [r EXCEPT !.pc = pc, !.eff = Append(@, e)]
\* the call moves to its next await with no effect recorded
Goto(r, pc) == [r EXCEPT !.pc = pc]
Return(r) == [r EXCEPT !.pc = "done", !.result = "returned"]
ReturnAfter(r, e) == [r EXCEPT !.pc = "done", !.result = "returned", !.eff = Append(@, e)]
\* the await at r.pc rejects and the call rejects with it
Throw(r) == [r EXCEPT !.pc = "done", !.result = "threw", !.failedAt = r.pc]

\* handlers with slot h replaced by r
Set(h, r) == [handlers EXCEPT ![h] = r]

\* clearState(botName, symbol) deletes the map entry: a `state` object another
\* call still holds for that key is no longer the one in the map
DropState(hs, key) ==
  [g \in DOMAIN hs |->
     IF KeyOf(hs[g]) = key THEN [hs[g] EXCEPT !.stateLive = FALSE] ELSE hs[g]]

\* store.close makes the position object other calls hold a closed one
DropExisting(hs, pair) ==
  [g \in DOMAIN hs |->
     IF PairOf(hs[g]) = pair THEN [hs[g] EXCEPT !.existingLive = FALSE] ELSE hs[g]]

\* (mutant of isEntryBlocked) the block still holds at blockedUntil itself
isEntryBlockedInclusive(key) ==
  /\ key \in DOMAIN entryBlockStates
  /\ ~(now > entryBlockStates[key].blockedUntil)

\* isEntryBlocked(botName, symbol), its result
isEntryBlocked(key) ==
  /\ key \in DOMAIN entryBlockStates
  /\ ~(now >= entryBlockStates[key].blockedUntil)

\* isEntryBlocked(botName, symbol), its effect: an expired entry is deleted
ExpireBlock(key) ==
  IF key \in DOMAIN entryBlockStates /\ now >= entryBlockStates[key].blockedUntil
  THEN MapDelete(entryBlockStates, key)
  ELSE entryBlockStates

\* getOrCreateState(botName, symbol), the map after it
getOrCreateState(b, s) ==
  IF getStateKey(b, s) \in DOMAIN partialCloseStates
  THEN partialCloseStates
  ELSE MapSet(partialCloseStates, getStateKey(b, s),
              [symbol |-> s, botName |-> b, smartVolCloseCount |-> 0, lastUpdate |-> now])

\* clearState(botName, symbol)
clearState(b, s) == MapDelete(partialCloseStates, getStateKey(b, s))

\* blockEntry(botName, symbol, reason)
blockEntry(b, s) ==
  MapSet(entryBlockStates, getStateKey(b, s),
         [symbol |-> s, botName |-> b, blockedUntil |-> now + HourMs])

\* the call awaits bot.notify(text), the last statement of its branch
NotifyNext(r, tag) == [r EXCEPT !.pc = "notify", !.note = tag]

\* A new call may start in slot h: the lowest free slot
CanStart(h) ==
  /\ handlers[h].pc = "idle"
  /\ \A g \in DOMAIN handlers : g < h => handlers[g].pc # "idle"

StrategyUnchanged == UNCHANGED <<registry, router>>

\* ------------------------------------------------------- store.findOpen
\* the awaits on store.findOpen whose answer decides what the call does
Lookups == {"onOpen.findOpen", "onAdd.findOpen", "onClose.findOpen", "onBigClose.findOpen"}

\* The store answers a pending findOpen: the call will resume with the position
\* as the store holds it now, which is some moment between the call and the
\* resumption; other calls may run in between
findOpenAnswers(h) ==
  /\ handlers[h].pc \in Lookups
  /\ ~handlers[h].fetched
  /\ LET r == handlers[h]
         existing == findOpen(r.bot, r.symbol)
     IN handlers' = Set(h, [r EXCEPT !.existing = existing,
                                     !.existingLive = existing.isOpen,
                                     !.fetched = TRUE])
  /\ UNCHANGED <<now, botCfg, store, partialCloseStates, entryBlockStates, lastSync>>
  /\ StrategyUnchanged

\* ------------------------------------------------------------------ onOpen
\* (mutant of onOpen) the timeframe of the alert is not tested
onOpenAnyTimeframe(h, A) ==
  /\ CanStart(h)
  /\ \E a \in A :
       LET b == a.bot  s == a.symbol  tf == a.tf  price == a.price IN
       LET r == Call("onOpen", b, s, tf, price, "start")
           key == getStateKey(b, s)
       IN /\ entryBlockStates' = ExpireBlock(key)
          /\ handlers' =
               Set(h, IF isEntryBlocked(key)
                      THEN NotifyNext(r, "entry blocked")
                      ELSE Goto(r, "onOpen.findOpen"))
  /\ UNCHANGED <<now, botCfg, store, partialCloseStates, lastSync>>
  /\ StrategyUnchanged

\* onOpen(bot, alert) up to its first await
onOpen(h, A) ==
  /\ CanStart(h)
  /\ \E a \in A :
       LET b == a.bot  s == a.symbol  tf == a.tf  price == a.price IN
       LET r == Call("onOpen", b, s, tf, price, "start")
           key == getStateKey(b, s)
       IN /\ entryBlockStates' = ExpireBlock(key)
          /\ handlers' =
               Set(h, IF isEntryBlocked(key)
                      THEN NotifyNext(r, "entry blocked")
                      ELSE IF TimeframeOrDefault(tf) # "1h"
                           THEN NotifyNext(r, "timeframe skipped")
                           ELSE Goto(r, "onOpen.findOpen"))
  /\ UNCHANGED <<now, botCfg, store, partialCloseStates, lastSync>>
  /\ StrategyUnchanged

\* resumed with the answer of store.findOpen: max fills, onAdd, not allowed, or
\* go on to open
onOpen_findOpen(h) ==
  /\ handlers[h].pc = "onOpen.findOpen"
  /\ handlers[h].fetched
  /\ LET r0 == handlers[h]
         existing == r0.existing
         r == [r0 EXCEPT !.fetched = FALSE]
     IN handlers' =
          Set(h, IF existing.isOpen
                 THEN IF existing.fillsCount >= MaxFillsOf(r.bot)
                      THEN NotifyNext(r, "max fills reached")
                      ELSE Goto(r, "onAdd.findOpen")
                 ELSE IF ~botCfg[r.bot].allowed
                      THEN NotifyNext(r, "not allowed")
                      ELSE Goto(r, "onOpen.ensureLeverage"))
  /\ UNCHANGED <<now, botCfg, store, partialCloseStates, entryBlockStates, lastSync>>
  /\ StrategyUnchanged

\* exchange.ensureLeverage answered
onOpen_ensureLeverage(h) ==
  /\ handlers[h].pc = "onOpen.ensureLeverage"
  /\ handlers' = Set(h, Goto(handlers[h], "onOpen.calcSizeFromUsd"))
  /\ UNCHANGED <<now, botCfg, store, partialCloseStates, entryBlockStates, lastSync>>
  /\ StrategyUnchanged

\* exchange.calcSizeFromUsd(symbolId, price, bot.baseUsd()) answered
onOpen_calcSizeFromUsd(h) ==
  /\ handlers[h].pc = "onOpen.calcSizeFromUsd"
  /\ LET r == handlers[h]
     IN handlers' =
          Set(h, [r EXCEPT !.pc = "onOpen.placeMarket",
                           !.size = calcSizeFromUsd(r.price, botCfg[r.bot].baseUsd)])
  /\ UNCHANGED <<now, botCfg, store, partialCloseStates, entryBlockStates, lastSync>>
  /\ StrategyUnchanged

\* the buy order is placed; only then is baseUsd checked
onOpen_placeMarket(h) ==
  /\ handlers[h].pc = "onOpen.placeMarket"
  /\ LET r == Await(handlers[h], "onOpen.store.open", PlaceMarket("buy", handlers[h].size))
     IN handlers' =
          Set(h, IF IsBadUsd(botCfg[r.bot].baseUsd)
                 THEN NotifyNext(r, "baseUsd undefined")
                 ELSE r)
  /\ UNCHANGED <<now, botCfg, store, partialCloseStates, entryBlockStates, lastSync>>
  /\ StrategyUnchanged

\* store.open answered: the position exists; the closeCount state is initialised
onOpen_storeOpen(h) ==
  /\ handlers[h].pc = "onOpen.store.open"
  /\ LET r == handlers[h]
     IN /\ store' = [store EXCEPT ![PairOf(r)] =
                                   StoreOpen(r.price, botCfg[r.bot].baseUsd.v)]
        /\ partialCloseStates' = getOrCreateState(r.bot, r.symbol)
        /\ handlers' =
             DropExisting(
               Set(h, NotifyNext([r EXCEPT !.eff = Append(@, StoreOp("store.open"))], "OPEN")),
               PairOf(r))
  /\ UNCHANGED <<now, botCfg, entryBlockStates, lastSync>>
  /\ StrategyUnchanged

\* ------------------------------------------------------------------- onAdd
\* onAdd(bot, alert) up to its first await
onAdd(h, A) ==
  /\ CanStart(h)
  /\ \E a \in A :
       LET b == a.bot  s == a.symbol  tf == a.tf  price == a.price IN
       handlers' = Set(h, Call("onAdd", b, s, tf, price, "onAdd.findOpen"))
  /\ UNCHANGED <<now, botCfg, store, partialCloseStates, entryBlockStates, lastSync>>
  /\ StrategyUnchanged

\* store.findOpen answered: no position, max fills, bad addUsd, or go on to add
onAdd_findOpen(h) ==
  /\ handlers[h].pc = "onAdd.findOpen"
  /\ handlers[h].fetched
  /\ LET r0 == handlers[h]
         existing == r0.existing
         r == [r0 EXCEPT !.fetched = FALSE]
     IN handlers' =
          Set(h, IF ~existing.isOpen
                 THEN Return(r)
                 ELSE IF existing.fillsCount >= MaxFillsOf(r.bot)
                      THEN NotifyNext(r, "max fills reached")
                      ELSE IF IsBadUsd(botCfg[r.bot].addUsd)
                           THEN NotifyNext(r, "addUsd undefined")
                           ELSE Goto(r, "onAdd.calcSizeFromUsd"))
  /\ UNCHANGED <<now, botCfg, store, partialCloseStates, entryBlockStates, lastSync>>
  /\ StrategyUnchanged

\* (mutant of onAdd_calcSizeFromUsd) the add is sized from bot.baseUsd()
onAdd_calcSizeFromBaseUsd(h) ==
  /\ handlers[h].pc = "onAdd.calcSizeFromUsd"
  /\ LET r == handlers[h]
     IN handlers' =
          Set(h, [r EXCEPT !.pc = "onAdd.placeMarket",
                           !.size = calcSizeFromUsd(r.price, botCfg[r.bot].baseUsd)])
  /\ UNCHANGED <<now, botCfg, store, partialCloseStates, entryBlockStates, lastSync>>
  /\ StrategyUnchanged

\* exchange.calcSizeFromUsd(symbolId, price, addUsd) answered
onAdd_calcSizeFromUsd(h) ==
  /\ handlers[h].pc = "onAdd.calcSizeFromUsd"
  /\ LET r == handlers[h]
     IN handlers' =
          Set(h, [r EXCEPT !.pc = "onAdd.placeMarket",
                           !.size = calcSizeFromUsd(r.price, botCfg[r.bot].addUsd)])
  /\ UNCHANGED <<now, botCfg, store, partialCloseStates, entryBlockStates, lastSync>>
  /\ StrategyUnchanged

\* the buy order is placed
onAdd_placeMarket(h) ==
  /\ handlers[h].pc = "onAdd.placeMarket"
  /\ handlers' =
       Set(h, Await(handlers[h], "onAdd.store.add", PlaceMarket("buy", handlers[h].size)))
  /\ UNCHANGED <<now, botCfg, store, partialCloseStates, entryBlockStates, lastSync>>
  /\ StrategyUnchanged

\* store.add(existing, price, addUsd) answered: the fill is persisted
onAdd_storeAdd(h) ==
  /\ handlers[h].pc = "onAdd.store.add"
  /\ LET r == handlers[h]
     IN /\ store' =
             IF r.existingLive
             THEN [store EXCEPT ![PairOf(r)] =
                                  StoreAdd(r.existing, r.price, botCfg[r.bot].addUsd.v)]
             ELSE store
        /\ handlers' = Set(h, Await(r, "onAdd.findOpen2", StoreOp("store.add")))
  /\ UNCHANGED <<now, botCfg, partialCloseStates, entryBlockStates, lastSync>>
  /\ StrategyUnchanged

\* the second store.findOpen answered: either way the ADD notification follows
onAdd_findOpen2(h) ==
  /\ handlers[h].pc = "onAdd.findOpen2"
  /\ handlers' = Set(h, NotifyNext(handlers[h], "ADD"))
  /\ UNCHANGED <<now, botCfg, store, partialCloseStates, entryBlockStates, lastSync>>
  /\ StrategyUnchanged

\* ------------------------------------------------------------------ onClose
\* (mutant of FlashCloseDone) the position is closed in the store with no
\* flashClose on the exchange
FlashCloseSkipped(h, pc, next) ==
  /\ handlers[h].pc = pc
  /\ handlers' = Set(h, Goto(handlers[h], next))
  /\ UNCHANGED <<now, botCfg, store, partialCloseStates, entryBlockStates, lastSync>>
  /\ StrategyUnchanged

\* exchange.flashClose(symbol, 'long') answered; calculatePnL; store.close is next
FlashCloseDone(h, pc, next) ==
  /\ handlers[h].pc = pc
  /\ handlers' = Set(h, Await(handlers[h], next, FlashClose))
  /\ UNCHANGED <<now, botCfg, store, partialCloseStates, entryBlockStates, lastSync>>
  /\ StrategyUnchanged

\* (mutant of StoreCloseDone) clearState is forgotten
StoreCloseKeepsState(h, pc, tag) ==
  /\ handlers[h].pc = pc
  /\ LET r == handlers[h]
     IN /\ store' = IF r.existingLive THEN [store EXCEPT ![PairOf(r)] = NoPos] ELSE store
        /\ handlers' =
             DropExisting(
               Set(h, NotifyNext([r EXCEPT !.eff = Append(@, StoreOp("store.close"))], tag)),
               PairOf(r))
  /\ UNCHANGED <<now, botCfg, partialCloseStates, entryBlockStates, lastSync>>
  /\ StrategyUnchanged

\* store.close(existing, price) answered; clearState; the notification is next
StoreCloseDone(h, pc, tag) ==
  /\ handlers[h].pc = pc
  /\ LET r == handlers[h]
     IN /\ store' = IF r.existingLive THEN [store EXCEPT ![PairOf(r)] = NoPos] ELSE store
        /\ partialCloseStates' = clearState(r.bot, r.symbol)
        /\ handlers' =
             DropState(
               DropExisting(
                 Set(h, NotifyNext([r EXCEPT !.eff = Append(@, StoreOp("store.close"))], tag)),
                 PairOf(r)),
               KeyOf(r))
  /\ UNCHANGED <<now, botCfg, entryBlockStates, lastSync>>
  /\ StrategyUnchanged

\* onClose(bot, alert) up to its first await
onClose(h, A) ==
  /\ CanStart(h)
  /\ \E a \in A :
       LET b == a.bot  s == a.symbol  tf == a.tf  price == a.price IN
       handlers' = Set(h, Call("onClose", b, s, tf, price, "onClose.findOpen"))
  /\ UNCHANGED <<now, botCfg, store, partialCloseStates, entryBlockStates, lastSync>>
  /\ StrategyUnchanged

\* store.findOpen answered: no position; 4h; or the 1h count decides
onClose_findOpen(h) ==
  /\ handlers[h].pc = "onClose.findOpen"
  /\ handlers[h].fetched
  /\ LET r0 == handlers[h]
         existing == r0.existing
         r == [r0 EXCEPT !.fetched = FALSE]
         key == KeyOf(r0)
         states == getOrCreateState(r0.bot, r0.symbol)
         currentCount == states[key].smartVolCloseCount
     IN IF ~existing.isOpen
        THEN /\ handlers' = Set(h, Return(r))
             /\ UNCHANGED partialCloseStates
        ELSE IF TimeframeOrDefault(r.tf) = "4h"
        THEN /\ handlers' = Set(h, Goto(r, "onClose.4h.flashClose"))
             /\ UNCHANGED partialCloseStates
        ELSE IF currentCount = 0
        THEN /\ partialCloseStates' =
                  [states EXCEPT ![key].smartVolCloseCount = 1, ![key].lastUpdate = now]
             /\ handlers' =
                  Set(h, NotifyNext([r EXCEPT !.stateLive = TRUE], "first SmartClose"))
        ELSE IF currentCount = 1
        THEN /\ partialCloseStates' = states
             /\ handlers' =
                  Set(h, [r EXCEPT !.pc = "onClose.placeMarket", !.stateLive = TRUE,
                                   !.size = Num(CloseTokens(existing))])
        ELSE /\ partialCloseStates' = states
             /\ handlers' =
                  Set(h, [r EXCEPT !.pc = "onClose.final.flashClose", !.stateLive = TRUE])
  /\ UNCHANGED <<now, botCfg, store, entryBlockStates, lastSync>>
  /\ StrategyUnchanged

onClose_4h_flashClose(h) ==
  FlashCloseDone(h, "onClose.4h.flashClose", "onClose.4h.store.close")

onClose_4h_storeClose(h) ==
  StoreCloseDone(h, "onClose.4h.store.close", "CLOSE 4h")

\* (mutant of onClose_placeMarket) the sold half is also booked in the store
onClose_placeMarketBooked(h) ==
  /\ handlers[h].pc = "onClose.placeMarket"
  /\ LET r == handlers[h]
         key == KeyOf(r)
     IN /\ partialCloseStates' =
             IF r.stateLive
             THEN [partialCloseStates EXCEPT ![key].smartVolCloseCount = 2,
                                             ![key].lastUpdate = now]
             ELSE partialCloseStates
        /\ store' = [store EXCEPT ![PairOf(r)].amountUsd = @ \div 2]
        /\ handlers' =
             Set(h, NotifyNext([r EXCEPT !.eff = Append(@, PlaceMarket("sell", r.size))],
                               "partial close 50%"))
  /\ UNCHANGED <<now, botCfg, entryBlockStates, lastSync>>
  /\ StrategyUnchanged

\* the sell order for half of the position is placed; the count becomes 2
onClose_placeMarket(h) ==
  /\ handlers[h].pc = "onClose.placeMarket"
  /\ LET r == handlers[h]
         key == KeyOf(r)
     IN /\ partialCloseStates' =
             IF r.stateLive
             THEN [partialCloseStates EXCEPT ![key].smartVolCloseCount = 2,
                                             ![key].lastUpdate = now]
             ELSE partialCloseStates
        /\ handlers' =
             Set(h, NotifyNext([r EXCEPT !.eff = Append(@, PlaceMarket("sell", r.size))],
                               "partial close 50%"))
  /\ UNCHANGED <<now, botCfg, store, entryBlockStates, lastSync>>
  /\ StrategyUnchanged

onClose_final_flashClose(h) ==
  FlashCloseDone(h, "onClose.final.flashClose", "onClose.final.store.close")

onClose_final_storeClose(h) ==
  StoreCloseDone(h, "onClose.final.store.close", "final close")

\* --------------------------------------------------------------- onBigClose
onBigClose(h, A) ==
  /\ CanStart(h)
  /\ \E a \in A :
       LET b == a.bot  s == a.symbol  tf == a.tf  price == a.price IN
       handlers' = Set(h, Call("onBigClose", b, s, tf, price, "onBigClose.findOpen"))
  /\ UNCHANGED <<now, botCfg, store, partialCloseStates, entryBlockStates, lastSync>>
  /\ StrategyUnchanged

\* (mutant of onBigClose_findOpen) the `if (!existing) return` is missing
onBigClose_findOpenUnchecked(h) ==
  /\ handlers[h].pc = "onBigClose.findOpen"
  /\ handlers[h].fetched
  /\ LET r0 == handlers[h]
         existing == r0.existing
         r == [r0 EXCEPT !.fetched = FALSE]
     IN handlers' = Set(h, Goto(r, "onBigClose.flashClose"))
  /\ UNCHANGED <<now, botCfg, store, partialCloseStates, entryBlockStates, lastSync>>
  /\ StrategyUnchanged

\* store.findOpen answered: no position, or go on to close
onBigClose_findOpen(h) ==
  /\ handlers[h].pc = "onBigClose.findOpen"
  /\ handlers[h].fetched
  /\ LET r0 == handlers[h]
         existing == r0.existing
         r == [r0 EXCEPT !.fetched = FALSE]
     IN handlers' =
          Set(h, IF ~existing.isOpen THEN Return(r) ELSE Goto(r, "onBigClose.flashClose"))
  /\ UNCHANGED <<now, botCfg, store, partialCloseStates, entryBlockStates, lastSync>>
  /\ StrategyUnchanged

onBigClose_flashClose(h) ==
  FlashCloseDone(h, "onBigClose.flashClose", "onBigClose.store.close")

onBigClose_storeClose(h) ==
  StoreCloseDone(h, "onBigClose.store.close", "BIG CLOSE")

\* ------------------------------------------------- the remaining entry points
\* onBigAdd: a notification only
onBigAdd(h, A) ==
  /\ CanStart(h)
  /\ \E a \in A :
       LET b == a.bot  s == a.symbol  tf == a.tf  price == a.price IN
       handlers' = Set(h, NotifyNext(Call("onBigAdd", b, s, tf, price, "start"), "BIG ADD"))
  /\ UNCHANGED <<now, botCfg, store, partialCloseStates, entryBlockStates, lastSync>>
  /\ StrategyUnchanged

\* onSmartVolumeOpen, onBullishVolume, onVolumeUp: a log line and nothing else
Unused(h, A, method) ==
  /\ CanStart(h)
  /\ \E a \in A :
       LET b == a.bot  s == a.symbol  tf == a.tf  price == a.price IN
       handlers' = Set(h, Return(Call(method, b, s, tf, price, "start")))
  /\ UNCHANGED <<now, botCfg, store, partialCloseStates, entryBlockStates, lastSync>>
  /\ StrategyUnchanged

onSmartVolumeOpen(h, A) == Unused(h, A, "onSmartVolumeOpen")
onBullishVolume(h, A) == Unused(h, A, "onBullishVolume")
onVolumeUp(h, A) == Unused(h, A, "onVolumeUp")

\* (mutant of Synchronization) the timeframe of the signal is not tested
SynchronizationAnyTimeframe(h, A, method) ==
  /\ CanStart(h)
  /\ \E a \in A :
       LET b == a.bot  s == a.symbol  tf == a.tf  price == a.price IN
       LET r == Call(method, b, s, tf, price, "start")
       IN /\ entryBlockStates' = blockEntry(b, s)
          /\ lastSync' = [lastSync EXCEPT ![<<b, s>>] = now]
          /\ handlers' = Set(h, NotifyNext(r, "entry blocked for 1h"))
  /\ UNCHANGED <<now, botCfg, store, partialCloseStates>>
  /\ StrategyUnchanged

\* a synchronization alert: at 1h the entry of the key is blocked for an hour
Synchronization(h, A, method) ==
  /\ CanStart(h)
  /\ \E a \in A :
       LET b == a.bot  s == a.symbol  tf == a.tf  price == a.price IN
       LET r == Call(method, b, s, tf, price, "start")
       IN IF TimeframeOrDefault(tf) # "1h"
          THEN /\ handlers' = Set(h, Return(r))
               /\ UNCHANGED <<entryBlockStates, lastSync>>
          ELSE /\ entryBlockStates' = blockEntry(b, s)
               /\ lastSync' = [lastSync EXCEPT ![<<b, s>>] = now]
               /\ handlers' = Set(h, NotifyNext(r, "entry blocked for 1h"))
  /\ UNCHANGED <<now, botCfg, store, partialCloseStates>>
  /\ StrategyUnchanged

onFixedShortSynchronization(h, A) == Synchronization(h, A, "onFixedShortSynchronization")
onLiveShortSynchronization(h, A) == Synchronization(h, A, "onLiveShortSynchronization")

\* ------------------------------------------------------- awaits in general
\* bot.notify(text) answered: every notification is the last await of its branch
notify(h) ==
  /\ handlers[h].pc = "notify"
  /\ handlers' = Set(h, ReturnAfter(handlers[h], Notify(handlers[h].note)))
  /\ UNCHANGED <<now, botCfg, store, partialCloseStates, entryBlockStates, lastSync>>
  /\ StrategyUnchanged

\* the awaited call fails: nothing it would have done happens, the catch blocks
\* log and rethrow, and the strategy call rejects
AwaitFails(h) ==
  /\ InFlight(handlers[h])
  /\ handlers' = Set(h, Throw(handlers[h]))
  /\ UNCHANGED <<now, botCfg, store, partialCloseStates, entryBlockStates, lastSync>>
  /\ StrategyUnchanged

\* the settled promise of a finished call is dropped
Settle(h) ==
  /\ handlers[h].pc = "done"
  /\ handlers' = Set(h, Idle)
  /\ UNCHANGED <<now, botCfg, store, partialCloseStates, entryBlockStates, lastSync>>
  /\ StrategyUnchanged

\* The process restarts between calls: the strategy is constructed anew with
\* empty maps, while the positions store keeps what it holds
Restart ==
  /\ \A h \in DOMAIN handlers : handlers[h].pc = "idle"
  /\ partialCloseStates # EmptyMap \/ entryBlockStates # EmptyMap
  /\ partialCloseStates' = EmptyMap
  /\ entryBlockStates' = EmptyMap
  /\ lastSync' = [p \in Pairs |-> -1]
  /\ UNCHANGED <<now, botCfg, store, handlers>>
  /\ StrategyUnchanged

\* time passes
Tick ==
  /\ now < MaxTicks * TickMs
  /\ now' = now + TickMs
  /\ UNCHANGED <<botCfg, store, partialCloseStates, entryBlockStates, handlers, lastSync>>
  /\ StrategyUnchanged

Step(h, A) ==
  \/ onOpen(h, A) \/ onOpen_findOpen(h) \/ onOpen_ensureLeverage(h)
  \/ onOpen_calcSizeFromUsd(h) \/ onOpen_placeMarket(h) \/ onOpen_storeOpen(h)
  \/ onAdd(h, A) \/ onAdd_findOpen(h) \/ onAdd_calcSizeFromUsd(h) \/ onAdd_placeMarket(h)
  \/ onAdd_storeAdd(h) \/ onAdd_findOpen2(h)
  \/ onClose(h, A) \/ onClose_findOpen(h) \/ onClose_4h_flashClose(h)
  \/ onClose_4h_storeClose(h) \/ onClose_placeMarket(h)
  \/ onClose_final_flashClose(h) \/ onClose_final_storeClose(h)
  \/ onBigClose(h, A) \/ onBigClose_findOpen(h) \/ onBigClose_flashClose(h)
  \/ onBigClose_storeClose(h)
  \/ onBigAdd(h, A) \/ onSmartVolumeOpen(h, A) \/ onBullishVolume(h, A) \/ onVolumeUp(h, A)
  \/ onFixedShortSynchronization(h, A) \/ onLiveShortSynchronization(h, A)
  \/ findOpenAnswers(h) \/ notify(h) \/ AwaitFails(h) \/ Settle(h)

\* the calls whose guard and mutation are separated by an await
StepConc(h, A) ==
  \/ onOpen(h, A) \/ onOpen_findOpen(h) \/ onOpen_ensureLeverage(h)
  \/ onOpen_calcSizeFromUsd(h) \/ onOpen_placeMarket(h) \/ onOpen_storeOpen(h)
  \/ onAdd(h, A) \/ onAdd_findOpen(h) \/ onAdd_calcSizeFromUsd(h) \/ onAdd_placeMarket(h)
  \/ onAdd_storeAdd(h) \/ onAdd_findOpen2(h)
  \/ onClose(h, A) \/ onClose_findOpen(h) \/ onClose_4h_flashClose(h)
  \/ onClose_4h_storeClose(h) \/ onClose_placeMarket(h)
  \/ onClose_final_flashClose(h) \/ onClose_final_storeClose(h)
  \/ onBigClose(h, A) \/ onBigClose_findOpen(h) \/ onBigClose_flashClose(h)
  \/ onBigClose_storeClose(h)
  \/ findOpenAnswers(h) \/ notify(h) \/ AwaitFails(h)

\* ------------------------------------------------------------------ toAlert
\* A payload is an object or not (null, a string, a number); a field of it is
\* absent (undefined / null), or a string (perhaps empty)
Missing == [has |-> FALSE, val |-> ""]
Val(s) == [has |-> TRUE, val |-> s]

SmartVolTypes ==
  {"SmartOpen", "SmartVolAdd", "SmartClose", "SmartBigClose", "SmartBigAdd",
   "SmartVolumeOpen", "BullishVolume", "VolumeUp"}

DominationTypes ==
  {"Buyer domination", "Seller domination", "Continuation of buyer dominance",
   "Continuation of seller dominance"}

\* (mutant of Falsy) `x == null` instead of `!x`: '' passes
NullOnly(f) == ~f.has

\* !x for a payload field: undefined, null and '' are falsy
Falsy(f) == ~f.has \/ f.val = ""

BadRequest(msg) == [ok |-> FALSE, error |-> msg]
Classified(alert) == [ok |-> TRUE, alert |-> alert]

\* toAlert(p): the typed alert, or the BadRequestException it throws
toAlert(p) ==
  IF ~p.object
  THEN BadRequest("Invalid payload")
  ELSE IF ~p.alertName.has
  THEN BadRequest("Only SmartVol and Domination alerts are supported")
  ELSE IF p.alertName.val \in SmartVolTypes
  THEN IF Falsy(p.symbol) \/ ~p.price.has
       THEN BadRequest("symbol and price are required")
       ELSE IF p.alertName.val = "VolumeUp"
       THEN IF ~p.volume.has
            THEN BadRequest("volume is required for VolumeUp alerts")
            ELSE IF Falsy(p.timeframe)
            THEN BadRequest("timeframe is required for VolumeUp alerts")
            ELSE Classified([kind |-> "smartvol", type |-> p.alertName.val,
                             symbol |-> p.symbol.val, price |-> p.price.val,
                             timeframe |-> p.timeframe, volume |-> p.volume])
       ELSE Classified([kind |-> "smartvol", type |-> p.alertName.val,
                        symbol |-> p.symbol.val, price |-> p.price.val,
                        timeframe |-> p.timeframe, volume |-> Missing])
  ELSE IF p.alertName.val \in DominationTypes
  THEN IF Falsy(p.symbol) \/ ~p.price.has
       THEN BadRequest("symbol and price are required")
       ELSE Classified([kind |-> "domination", type |-> p.alertName.val,
                        symbol |-> p.symbol.val, price |-> p.price.val,
                        timeframe |-> p.timeframe, volume |-> Missing])
  ELSE BadRequest("Unknown alert type")

\* ------------------------------------------------------------ AlertsRouter
MaxBots == 3

RouterSymbols == {"BTCUSDT", "ETHUSDT"}

\* bot.cfg of a registered bot: symbol_filter (perhaps absent) and strategy
SymbolFilters ==
  {[has |-> FALSE, list |-> <<>>], [has |-> TRUE, list |-> <<>>],
   [has |-> TRUE, list |-> <<"BTCUSDT">>], [has |-> TRUE, list |-> <<"ETHUSDT">>]}
BotKinds == [symbol_filter : SymbolFilters, strategy : {"domination", "partial-close"}]

Registries == UNION {[1..n -> BotKinds] : n \in 0..MaxBots}

\* the payloads handed to handle
Payloads ==
  [object : {TRUE},
   alertName : {Missing, Val("SmartOpen"), Val("SmartClose"), Val("VolumeUp"),
                Val("Unknown")} \cup {Val(ty) : ty \in DominationTypes},
   symbol : {Missing} \cup {Val(s) : s \in RouterSymbols},
   price : {Missing, Val("100")},
   volume : {Val("5")},
   timeframe : {Val("1h")}]

\* bot.cfg.symbol_filter || []
FilterOf(bot) == IF bot.symbol_filter.has THEN bot.symbol_filter.list ELSE <<>>

Includes(list, x) == \E i \in 1..Len(list) : list[i] = x

\* (mutant of Admits) the symbol filter is not consulted
AdmitsAll(bot, alert) == TRUE

\* the negation of `filter.length && !filter.includes(alert.symbol)`
Admits(bot, alert) ==
  ~(Len(FilterOf(bot)) # 0 /\ ~Includes(FilterOf(bot), alert.symbol))

\* registry.all().filter((bot) => bot.cfg.strategy === 'domination'), as the
\* increasing sequence of the positions of these bots in the registry
RECURSIVE Positions(_, _)
Positions(S, from) ==
  IF \A j \in S : j < from
  THEN <<>>
  ELSE IF from \in S THEN <<from>> \o Positions(S, from + 1) ELSE Positions(S, from + 1)

DominationBots ==
  Positions({j \in 1..Len(registry) : registry[j].strategy = "domination"}, 1)

\* (mutant of AllBots) the registry is walked from its last bot to its first
AllBotsReversed == [i \in 1..Len(registry) |-> Len(registry) + 1 - i]

AllBots == Positions(1..Len(registry), 1)

\* (mutant of DominationHandler) the two buyer cases fall into one handler
DominationHandlerMerged(type) ==
  CASE type = "Buyer domination" -> "onBuyerDomination"
    [] type = "Seller domination" -> "onSellerDomination"
    [] type = "Continuation of buyer dominance" -> "onBuyerDomination"
    [] type = "Continuation of seller dominance" -> "onSellerContinuation"
    [] OTHER -> "none"

\* processDominationAlert: the switch on alert.type
DominationHandler(type) ==
  CASE type = "Buyer domination" -> "onBuyerDomination"
    [] type = "Seller domination" -> "onSellerDomination"
    [] type = "Continuation of buyer dominance" -> "onBuyerContinuation"
    [] type = "Continuation of seller dominance" -> "onSellerContinuation"
    [] OTHER -> "none"

\* (mutant of DominationEntry) the symbol filter is not checked again
DominationEntryUnfiltered(bot, alert) ==
  IF bot.strategy # "domination" THEN "none" ELSE DominationHandler(alert.type)

\* processDominationAlert(bot, alert) up to its await: the entry point it calls,
\* or "none" when it returns before calling any
DominationEntry(bot, alert) ==
  IF bot.strategy # "domination"
  THEN "none"
  ELSE IF ~Admits(bot, alert) THEN "none" ELSE DominationHandler(alert.type)

\* the general loop: the entry point called for a bot, or "none" on `continue`
GeneralEntry(bot, alert) == IF Admits(bot, alert) THEN "process" ELSE "none"

EntryFor(bot, alert) ==
  IF alert.kind = "domination" THEN DominationEntry(bot, alert) ELSE GeneralEntry(bot, alert)

RouterIdle ==
  [pc |-> "idle", payload |-> [object |-> FALSE], alert |-> [kind |-> ""],
   bots |-> <<>>, i |-> 0, calls |-> <<>>, result |-> "none"]

\* the loop runs on from position i of r.bots to the next bot it calls, and
\* awaits that call; past the last bot, handle returns
RECURSIVE RunLoop(_, _)
RunLoop(r, i) ==
  IF i > Len(r.bots)
  THEN [r EXCEPT !.pc = "done", !.i = i, !.result = "returned"]
  ELSE IF EntryFor(registry[r.bots[i]], r.alert) = "none"
       THEN RunLoop(r, i + 1)
       ELSE [r EXCEPT !.pc = "await", !.i = i]

\* what a request body may be: not an object at all, or an object whose fields
\* are absent, empty, or hold a value; alertName also in another letter case
NonObject ==
  [object |-> FALSE, alertName |-> Missing, symbol |-> Missing, price |-> Missing,
   volume |-> Missing, timeframe |-> Missing]
AnyPayloads ==
  {NonObject} \cup
  [object : {TRUE},
   alertName : {Missing, Val("Unknown"), Val("smartopen")}
               \cup {Val(ty) : ty \in SmartVolTypes \cup DominationTypes},
   symbol : {Missing, Val(""), Val("BTCUSDT")},
   price : {Missing, Val(""), Val("100"), Val("abc")},
   volume : {Missing, Val("5")},
   timeframe : {Missing, Val(""), Val("1h")}]

\* handle(payload) up to its first await, for a payload of P
handlePayload(P) ==
  /\ router.pc = "idle"
  /\ \E p \in P :
       LET c == toAlert(p)
           r == [RouterIdle EXCEPT !.payload = p]
       IN router' =
            IF ~c.ok
            THEN [r EXCEPT !.pc = "done", !.result = "threw"]
            ELSE RunLoop([r EXCEPT !.alert = c.alert,
                                   !.bots = IF c.alert.kind = "domination"
                                            THEN DominationBots ELSE AllBots],
                         1)
  /\ UNCHANGED <<registry, strategyVars>>

handle == handlePayload(Payloads)
handleAny == handlePayload(AnyPayloads)

Called(r, outcome) ==
  [bot |-> r.bots[r.i], entry |-> EntryFor(registry[r.bots[r.i]], r.alert),
   outcome |-> outcome]

\* the awaited bot.process / domination handler returns
CallReturns ==
  /\ router.pc = "await"
  /\ router' =
       RunLoop([router EXCEPT !.calls = Append(@, Called(router, "returned"))],
               router.i + 1)
  /\ UNCHANGED <<registry, strategyVars>>

\* (mutant of Caught) no try/catch around the call: the failure leaves handle
Uncaught(r) ==
  [r EXCEPT !.pc = "done", !.result = "threw", !.calls = Append(@, Called(r, "threw"))]

\* the awaited call throws: the catch logs, and the loop goes on
Caught(r) == RunLoop([r EXCEPT !.calls = Append(@, Called(r, "threw"))], r.i + 1)

CallThrows ==
  /\ router.pc = "await"
  /\ router' = Caught(router)
  /\ UNCHANGED <<registry, strategyVars>>


InitStrategy ==
  /\ now = 0
  /\ botCfg \in [BotNames -> BotCfgs]
  /\ store = [p \in Pairs |-> NoPos]
  /\ partialCloseStates = EmptyMap
  /\ entryBlockStates = EmptyMap
  /\ handlers = [h \in 1..MaxInFlight |-> Idle]
  /\ lastSync = [p \in Pairs |-> -1]

Init ==
  /\ InitStrategy
  /\ registry = <<>>
  /\ router = RouterIdle

\* one call at a time, of any alert
Next == Tick \/ Restart \/ \E h \in {1} : Step(h, Alerts)

\* MaxInFlight calls arriving together and interleaving at their awaits
NextConc == \E h \in 1..MaxInFlight : StepConc(h, ConcAlerts)

\* The states in which concurrent calls arrive: the well-configured bot, and per
\* pair either no position and no closeCount state, or a position of 1 to 4 fills
\* bought at 100 with a closeCount of 0, 1 or 2 (all of them states Spec reaches)
OpenAt100(fills) ==
  [isOpen |-> TRUE, fillsCount |-> fills, avgEntryPrice |-> 100,
   amountUsd |-> GoodCfg.baseUsd.v + (fills - 1) * GoodCfg.addUsd.v]

InitConc ==
  /\ now = 0
  /\ botCfg = [b \in BotNames |-> GoodCfg]
  /\ store \in [Pairs -> {NoPos} \cup {OpenAt100(f) : f \in 1..DefaultMaxFills}]
  /\ \E cc \in [Pairs -> 0..2] :
       partialCloseStates =
         [k \in {getStateKey(p[1], p[2]) : p \in {q \in Pairs : store[q].isOpen}} |->
            LET p == CHOOSE q \in Pairs : getStateKey(q[1], q[2]) = k
            IN [symbol |-> p[2], botName |-> p[1], smartVolCloseCount |-> cc[p],
                lastUpdate |-> 0]]
  /\ entryBlockStates = EmptyMap
  /\ handlers = [h \in 1..MaxInFlight |-> Idle]
  /\ lastSync = [p \in Pairs |-> -1]
  /\ registry = <<>>
  /\ router = RouterIdle

Spec == Init /\ [][Next]_vars

SpecConc == InitConc /\ [][NextConc]_vars

\* a registry of bots, and no strategy call in progress
InitRouter ==
  /\ now = 0
  /\ botCfg = [b \in BotNames |-> GoodCfg]
  /\ store = [p \in Pairs |-> NoPos]
  /\ partialCloseStates = EmptyMap
  /\ entryBlockStates = EmptyMap
  /\ handlers = [h \in 1..MaxInFlight |-> Idle]
  /\ lastSync = [p \in Pairs |-> -1]
  /\ registry \in Registries
  /\ router = RouterIdle

NextRouter == handle \/ CallReturns \/ CallThrows

SpecRouter == InitRouter /\ [][NextRouter]_vars

\* ... where every awaited bot call settles: it returns or it throws
SpecRouterFair == SpecRouter /\ WF_vars(CallReturns \/ CallThrows)

\* any request body, handed to a registry of at most one bot
InitClassify ==
  /\ InitStrategy
  /\ registry \in {reg \in Registries : Len(reg) <= 1}
  /\ router = RouterIdle

NextClassify == handleAny \/ CallReturns \/ CallThrows

SpecClassify == InitClassify /\ [][NextClassify]_vars

\* bot names and symbols are free strings: names that hold the separator of
\* getStateKey
KeyBots == {"a", "a:b"}
KeySymbols == {"b:c", "c"}
\* the pairs that trade: two whose names join to the same key, and a third
KeyPairs == {<<"a", "b:c">>, <<"a:b", "c">>, <<"a", "c">>}
KeyAlerts ==
  {[bot |-> p[1], symbol |-> p[2], tf |-> tf, price |-> 100] :
     p \in KeyPairs, tf \in {"1h", "4h"}}
\* every bot allows two fills
KeyCfg == [GoodCfg EXCEPT !.maxFills = Num(2)]

InitKeys ==
  /\ now = 0
  /\ botCfg = [b \in KeyBots |-> KeyCfg]
  /\ store = [p \in KeyPairs |-> NoPos]
  /\ partialCloseStates = EmptyMap
  /\ entryBlockStates = EmptyMap
  /\ handlers = [h \in 1..MaxInFlight |-> Idle]
  /\ lastSync = [p \in KeyPairs |-> -1]
  /\ registry = <<>>
  /\ router = RouterIdle

\* one call at a time, for any of the pairs, all within the same half hour
NextKeys == \E h \in {1} : Step(h, KeyAlerts)

SpecKeys == InitKeys /\ [][NextKeys]_vars

\* ======================================================= claims: the router
\* a bot's symbol filter is empty or absent, or contains the symbol
FilterAllows(bot, symbol) ==
  \/ ~bot.symbol_filter.has
  \/ bot.symbol_filter.list = <<>>
  \/ \E i \in 1..Len(bot.symbol_filter.list) : bot.symbol_filter.list[i] = symbol

\* positions in the registry of the bots whose call has returned or thrown
CalledBots == {router.calls[k].bot : k \in 1..Len(router.calls)}
\* ... and of the bot whose call is awaited
InvokedBots ==
  CalledBots \cup (IF router.pc = "await" THEN {router.bots[router.i]} ELSE {})
\* the loop has gone past position j of the registry
Passed(j) ==
  \/ router.pc = "done"
  \/ router.pc = "await" /\ j < router.bots[router.i]

\* C1: in the general fan-out a failure of one bot's process(alert) never leaves
\* handle, and every later bot of the registry that the symbol filter admits is
\* still invoked.
C1_FailureIsolated ==
  router.alert.kind = "smartvol" =>
    /\ router.result # "threw"
    /\ router.pc = "done" => router.result = "returned"
    /\ \A k \in 1..Len(router.calls) :
         router.calls[k].outcome = "threw" =>
           \A j \in (router.calls[k].bot + 1)..Len(registry) :
             FilterAllows(registry[j], router.alert.symbol) /\ Passed(j) =>
               \E m \in (k + 1)..Len(router.calls) : router.calls[m].bot = j

\* handle is done after a bot threw and a later bot was invoked all the same
C1_Witness ==
  /\ router.pc = "done"
  /\ router.alert.kind = "smartvol"
  /\ Len(router.calls) >= 2
  /\ router.calls[1].outcome = "threw"
  /\ router.result = "returned"

\* C2: in the general fan-out a bot's process(alert) is invoked if and only if
\* its symbol filter is empty or absent or contains alert.symbol.
C2_InvokedIffAdmitted ==
  router.alert.kind = "smartvol" =>
    /\ \A j \in InvokedBots : FilterAllows(registry[j], router.alert.symbol)
    /\ \A k \in 1..Len(router.calls) : router.calls[k].entry = "process"
    /\ \A j \in 1..Len(registry) :
         FilterAllows(registry[j], router.alert.symbol) /\ Passed(j) => j \in CalledBots

\* handle is done, having skipped a bot whose filter excludes the symbol and
\* invoked a bot whose non-empty filter contains it
C2_Witness ==
  /\ router.pc = "done"
  /\ router.alert.kind = "smartvol"
  /\ \E j \in 1..Len(registry) :
       /\ ~FilterAllows(registry[j], router.alert.symbol)
       /\ j \notin CalledBots
  /\ \E j \in CalledBots : registry[j].symbol_filter.list # <<>>

\* the entry point bot j is being or has been called at
EntryOf(j) ==
  IF router.pc = "await" /\ router.bots[router.i] = j
  THEN EntryFor(registry[j], router.alert)
  ELSE (CHOOSE c \in {router.calls[k] : k \in 1..Len(router.calls)} : c.bot = j).entry

DominationEntries ==
  {"onBuyerDomination", "onSellerDomination", "onBuyerContinuation", "onSellerContinuation"}

\* C9: a domination alert never reaches bot.process, and reaches a domination
\* handler only for bots tagged "domination" whose symbol filter admits the
\* symbol; with no bot tagged "domination", handle calls nothing and returns.
C9_DominationOnlyTaggedBots ==
  router.alert.kind = "domination" =>
    /\ \A j \in InvokedBots :
         /\ registry[j].strategy = "domination"
         /\ FilterAllows(registry[j], router.alert.symbol)
         /\ EntryOf(j) \in DominationEntries
    /\ (\A j \in 1..Len(registry) : registry[j].strategy # "domination") =>
         /\ router.calls = <<>>
         /\ router.pc = "done"
         /\ router.result = "returned"

\* handle is done for a domination alert, having called a handler although the
\* registry holds a bot of another strategy and a domination bot whose filter
\* excludes the symbol
C9_Witness ==
  /\ router.pc = "done"
  /\ router.alert.kind = "domination"
  /\ router.calls # <<>>
  /\ \E j \in 1..Len(registry) : registry[j].strategy # "domination"
  /\ \E j \in 1..Len(registry) :
       /\ registry[j].strategy = "domination"
       /\ ~FilterAllows(registry[j], router.alert.symbol)

\* the handler the alert type names
HandlerNamedBy(type) ==
  CASE type = "Buyer domination" -> "onBuyerDomination"
    [] type = "Seller domination" -> "onSellerDomination"
    [] type = "Continuation of buyer dominance" -> "onBuyerContinuation"
    [] type = "Continuation of seller dominance" -> "onSellerContinuation"

\* the domination-tagged bots whose filter admits the alert's symbol
DominationTargets ==
  {j \in 1..Len(registry) :
     /\ registry[j].strategy = "domination"
     /\ FilterAllows(registry[j], router.alert.symbol)}

\* C10: for a domination alert, each domination-tagged bot whose filter admits
\* the symbol gets exactly one handler call, the one alert.type names, in
\* registry order; a handler that throws stops neither the calls for the
\* remaining bots nor handle itself.
C10_OneHandlerPerBot ==
  router.alert.kind = "domination" =>
    /\ router.result # "threw"
    /\ \A k \in 1..Len(router.calls) :
         /\ router.calls[k].entry = HandlerNamedBy(router.alert.type)
         /\ router.calls[k].bot \in DominationTargets
         /\ \A m \in 1..Len(router.calls) : m < k => router.calls[m].bot < router.calls[k].bot
    /\ \A j \in DominationTargets : Passed(j) => j \in CalledBots
    /\ router.pc = "done" =>
         /\ router.result = "returned"
         /\ Len(router.calls) = Cardinality(DominationTargets)

\* handle is done for a domination alert: the first handler threw and a second
\* bot's handler was called all the same
C10_Witness ==
  /\ router.pc = "done"
  /\ router.alert.kind = "domination"
  /\ Len(router.calls) >= 2
  /\ router.calls[1].outcome = "threw"
  /\ router.calls[2].entry = "onBuyerContinuation"

\* ===================================================== claims: the strategy
IsTrade(e) == e.op # "notify"
\* what a call did on the exchange and in the store, in order
Trading(r) == SelectSeq(r.eff, IsTrade)
IsOrder(e) == e.op = "placeMarket"
Orders(r) == SelectSeq(r.eff, IsOrder)

\* the (bot, symbol) of a call: its position, count and map key now
PositionOf(r) == store[<<r.bot, r.symbol>>]
CountOf(r) == CloseCountOf(getStateKey(r.bot, r.symbol))
HasCount(r) == getStateKey(r.bot, r.symbol) \in DOMAIN partialCloseStates

\* maxFills as configured, 4 when not configured
ConfiguredMaxFills(b) == IF botCfg[b].maxFills.nan THEN 4 ELSE botCfg[b].maxFills.v

\* size (in 1e-8 tokens) is (amountUsd * 0.5) / avgEntryPrice to eight decimals
IsHalfOf(size, pos) ==
  /\ 2 * pos.avgEntryPrice * size - pos.amountUsd * (10 ^ 8) <= pos.avgEntryPrice
  /\ pos.amountUsd * (10 ^ 8) - 2 * pos.avgEntryPrice * size <= pos.avgEntryPrice

\* C3: with an open position, a 1h SmartClose that returns does, by the
\* closeCount it finds: at 0, nothing on the exchange or in the store, and the
\* count becomes 1; at 1, exactly one sell order for (amountUsd * 0.5) /
\* avgEntryPrice tokens, the count becomes 2 and the position stays open as it
\* was; at 2, a flash close then a store close, after which there is neither
\* a position nor a closeCount state.
C3_ThreeSmartCloses ==
  LET r == handlers[1]
  IN (r.method = "onClose" /\ r.tf = "1h" /\ r.result = "returned" /\ r.pre.pos.isOpen) =>
       /\ r.pre.closeCount = 0 =>
            /\ Trading(r) = <<>>
            /\ PositionOf(r) = r.pre.pos
            /\ CountOf(r) = 1
       /\ r.pre.closeCount = 1 =>
            /\ Len(Trading(r)) = 1
            /\ Trading(r)[1].op = "placeMarket"
            /\ Trading(r)[1].side = "sell"
            /\ ~Trading(r)[1].size.nan
            /\ IsHalfOf(Trading(r)[1].size.v, r.pre.pos)
            /\ PositionOf(r) = r.pre.pos
            /\ CountOf(r) = 2
       /\ r.pre.closeCount = 2 =>
            /\ Trading(r) = <<FlashClose, StoreOp("store.close")>>
            /\ ~PositionOf(r).isOpen
            /\ ~HasCount(r)

\* the third 1h SmartClose has returned: the position of several fills bought
\* at different prices is closed
C3_Witness ==
  LET r == handlers[1]
  IN /\ r.method = "onClose" /\ r.tf = "1h" /\ r.result = "returned"
     /\ r.pre.pos.isOpen /\ r.pre.closeCount = 2
     /\ r.pre.pos.fillsCount = 2 /\ r.pre.pos.avgEntryPrice \notin Prices
     /\ ~PositionOf(r).isOpen

\* a call started less than an hour after the last 1h synchronization of its pair
WithinBlock(r) ==
  /\ lastSync[<<r.bot, r.symbol>>] >= 0
  /\ r.pre.at < lastSync[<<r.bot, r.symbol>>] + 3600000

\* C4: a SmartOpen handled less than an hour after a 1h synchronization of its
\* key is rejected with the "entry blocked" notification, no order and no store
\* mutation; a 1h SmartOpen handled an hour or more after it, with no position
\* open, is not blocked and opens the position.
C4_EntryBlockedForAnHour ==
  LET r == handlers[1]
  IN r.method = "onOpen" =>
       /\ WithinBlock(r) =>
            /\ Trading(r) = <<>>
            /\ PositionOf(r) = r.pre.pos
            /\ r.pc \in {"notify", "done"}
            /\ r.note = "entry blocked"
            /\ r.result = "returned" => r.eff = <<Notify("entry blocked")>>
       /\ (~WithinBlock(r) /\ r.tf = "1h" /\ ~r.pre.pos.isOpen) =>
            /\ r.note # "entry blocked"
            /\ (r.result = "returned" /\ botCfg[r.bot] = GoodCfg) =>
                 /\ Len(Trading(r)) = 2
                 /\ Trading(r)[1].op = "placeMarket" /\ Trading(r)[1].side = "buy"
                 /\ Trading(r)[2].op = "store.open"
                 /\ PositionOf(r).isOpen
                 /\ PositionOf(r).fillsCount = 1

\* a SmartOpen handled exactly an hour after the synchronization has opened
C4_Witness ==
  LET r == handlers[1]
  IN /\ r.method = "onOpen" /\ r.result = "returned"
     /\ lastSync[<<r.bot, r.symbol>>] >= 0
     /\ r.pre.at = lastSync[<<r.bot, r.symbol>>] + 3600000
     /\ PositionOf(r).isOpen /\ ~r.pre.pos.isOpen

\* a SmartOpen handled half an hour after the synchronization was rejected
C4_WitnessRejected ==
  LET r == handlers[1]
  IN /\ r.method = "onOpen" /\ r.result = "returned"
     /\ WithinBlock(r) /\ r.pre.at > lastSync[<<r.bot, r.symbol>>]
     /\ r.eff = <<Notify("entry blocked")>>

\* C5: a SmartOpen or SmartVolAdd that finds fillsCount >= maxFills (4 when
\* not configured) places no order and leaves the position as it was; and no
\* position ever has more than maxFills fills.
C5_MaxFills ==
  /\ \A p \in Pairs : store[p].fillsCount <= ConfiguredMaxFills(p[1])
  /\ LET r == handlers[1]
     IN (/\ r.method \in {"onOpen", "onAdd"}
         /\ r.pre.pos.isOpen
         /\ r.pre.pos.fillsCount >= ConfiguredMaxFills(r.bot)) =>
          /\ Orders(r) = <<>>
          /\ Trading(r) = <<>>
          /\ PositionOf(r) = r.pre.pos

\* a SmartVolAdd found four fills with no maxFills configured and was refused
C5_Witness ==
  LET r == handlers[1]
  IN /\ r.method = "onAdd" /\ r.result = "returned"
     /\ botCfg[r.bot].maxFills.nan
     /\ r.pre.pos.fillsCount = 4
     /\ r.eff = <<Notify("max fills reached")>>

\* C6: with an open position, a SmartBigClose never places an order, and when
\* it returns it has flash-closed and then closed the position in the store:
\* no position is open and no closeCount state is left, whatever the timeframe
\* and whatever the closeCount was (none, 0, 1, 2).
C6_BigCloseIsFull ==
  LET r == handlers[1]
  IN (r.method = "onBigClose" /\ r.pre.pos.isOpen) =>
       /\ Orders(r) = <<>>
       /\ r.result = "returned" =>
            /\ Trading(r) = <<FlashClose, StoreOp("store.close")>>
            /\ ~PositionOf(r).isOpen
            /\ ~HasCount(r)

\* a SmartBigClose at another timeframe than 1h closed a position whose
\* closeCount was 1
C6_Witness ==
  LET r == handlers[1]
  IN /\ r.method = "onBigClose" /\ r.result = "returned"
     /\ r.tf = "15m" /\ r.pre.closeCount = 1 /\ r.pre.pos.isOpen
     /\ ~PositionOf(r).isOpen

\* the awaits on the exchange call that precedes a store mutation
TradeAwaits ==
  {"onOpen.placeMarket", "onAdd.placeMarket", "onClose.4h.flashClose",
   "onClose.final.flashClose", "onBigClose.flashClose"}

\* C7: in a call the store is mutated only after the exchange call of the
\* transition has completed (a buy order before store.open / store.add, a flash
\* close before store.close); when that exchange call fails the call throws and
\* the store is not mutated.
C7_ExchangeBeforeStore ==
  LET r == handlers[1]
  IN r.pc # "idle" =>
       /\ \A i \in 1..Len(r.eff) :
            /\ r.eff[i].op \in {"store.open", "store.add"} =>
                 \E j \in 1..(i - 1) : r.eff[j].op = "placeMarket" /\ r.eff[j].side = "buy"
            /\ r.eff[i].op = "store.close" =>
                 \E j \in 1..(i - 1) : r.eff[j].op = "flashClose"
       /\ PositionOf(r) # r.pre.pos =>
            \E i \in 1..Len(r.eff) : r.eff[i].op \in {"placeMarket", "flashClose"}
       /\ r.failedAt \in TradeAwaits =>
            /\ r.result = "threw"
            /\ \A i \in 1..Len(r.eff) : r.eff[i].op \notin StoreOps
            /\ PositionOf(r) = r.pre.pos

\* the flash close of a third 1h SmartClose failed: the call threw, the
\* position is still open
C7_Witness ==
  LET r == handlers[1]
  IN /\ r.failedAt = "onClose.final.flashClose"
     /\ r.result = "threw"
     /\ PositionOf(r).isOpen

\* C8: calls for one key are serialized: two 1h SmartClose alerts that arrive
\* at closeCount 1 place at most one 50% sell order between them, and two
\* SmartOpen alerts that arrive with no position open create at most one
\* position.
C8_SerializedPerKey ==
  \A g, h \in DOMAIN handlers :
    (/\ g # h
     /\ handlers[g].bot = handlers[h].bot
     /\ handlers[g].symbol = handlers[h].symbol
     /\ handlers[g].method = handlers[h].method
     /\ handlers[g].pre = handlers[h].pre) =>
      /\ (handlers[g].method = "onClose" /\ handlers[g].tf = "1h"
          /\ handlers[h].tf = "1h" /\ handlers[g].pre.closeCount = 1) =>
           Len(Orders(handlers[g])) + Len(Orders(handlers[h])) <= 1
      /\ (handlers[g].method = "onOpen" /\ ~handlers[g].pre.pos.isOpen) =>
           ~(/\ \E i \in 1..Len(handlers[g].eff) : handlers[g].eff[i].op = "store.open"
             /\ \E i \in 1..Len(handlers[h].eff) : handlers[h].eff[i].op = "store.open")

\* =================================================== claims: the classifier
\* the alert types of the two kinds
RecognizedTypes == SmartVolTypes \cup DominationTypes

\* the payload carries the field: a symbol or timeframe that is absent or empty
\* counts as missing, a price or volume only when absent
HasText(f) == f.has /\ f.val # ""
HasValue(f) == f.has

\* the payloads the classification is to accept
WellFormed(p) ==
  /\ p.object
  /\ p.alertName.has
  /\ p.alertName.val \in RecognizedTypes
  /\ HasText(p.symbol)
  /\ HasValue(p.price)
  /\ p.alertName.val = "VolumeUp" => HasValue(p.volume) /\ HasText(p.timeframe)

\* C11: classification succeeds if and only if the payload has the discriminator
\* with a recognized smartvol or domination type, a symbol and a price, and for
\* VolumeUp also a volume and a timeframe; for every other payload handle throws
\* the validation error and invokes no bot.
C11_ClassifiedIffWellFormed ==
  router.pc # "idle" =>
    /\ toAlert(router.payload).ok <=> WellFormed(router.payload)
    /\ WellFormed(router.payload) =>
         /\ router.alert = toAlert(router.payload).alert
         /\ ~(router.pc = "done" /\ router.result = "threw")
    /\ ~WellFormed(router.payload) =>
         /\ router.pc = "done"
         /\ router.result = "threw"
         /\ router.calls = <<>>

\* a VolumeUp payload without a timeframe was rejected although the registered
\* bot admits every symbol
C11_Witness ==
  /\ router.pc = "done"
  /\ router.result = "threw"
  /\ router.payload.object
  /\ router.payload.alertName = Val("VolumeUp")
  /\ HasText(router.payload.symbol) /\ HasValue(router.payload.price)
  /\ HasValue(router.payload.volume) /\ ~router.payload.timeframe.has
  /\ Len(registry) = 1 /\ ~registry[1].symbol_filter.has

\* Number(text) for the texts that occur as field values: NaN unless the text
\* is a decimal numeral ('' converts to 0)
NumberOf(text) ==
  CASE text = "100" -> Num(100)
    [] text = "5" -> Num(5)
    [] text = "" -> Num(0)
    [] OTHER -> NaNVal

IsNumericString(text) == text # "" /\ ~NumberOf(text).nan

\* C12: every alert the classifier produces has a non-empty symbol, a price
\* that is a numeric string, and a type of the enumerated set of its kind.
C12_AlertInvariant ==
  (router.pc # "idle" /\ toAlert(router.payload).ok) =>
    /\ router.alert.symbol # ""
    /\ IsNumericString(router.alert.price)
    /\ router.alert.kind \in {"smartvol", "domination"}
    /\ router.alert.kind = "smartvol" => router.alert.type \in SmartVolTypes
    /\ router.alert.kind = "domination" => router.alert.type \in DominationTypes

\* ============================================ claims: the strategy, continued
\* C13: with an open position, a SmartClose at 4h places no order and leaves
\* the closeCount as it found it until it clears it; when it returns it has
\* flash-closed and then closed the position in the store, and neither a
\* position nor a closeCount state is left, whatever the closeCount was (none,
\* 0, 1, 2).
C13_FourHourCloseIsFull ==
  LET r == handlers[1]
  IN (r.method = "onClose" /\ r.tf = "4h" /\ r.pre.pos.isOpen) =>
       /\ Orders(r) = <<>>
       /\ CountOf(r) \in {r.pre.closeCount, -1}
       /\ PositionOf(r) \in {r.pre.pos, NoPos}
       /\ PositionOf(r).isOpen => CountOf(r) = r.pre.closeCount
       /\ r.result = "returned" =>
            /\ Trading(r) = <<FlashClose, StoreOp("store.close")>>
            /\ ~PositionOf(r).isOpen
            /\ ~HasCount(r)

\* a SmartClose at 4h closed a position of two fills whose closeCount was 1
C13_Witness ==
  LET r == handlers[1]
  IN /\ r.method = "onClose" /\ r.tf = "4h" /\ r.result = "returned"
     /\ r.pre.pos.isOpen /\ r.pre.pos.fillsCount = 2 /\ r.pre.closeCount = 1
     /\ ~PositionOf(r).isOpen /\ ~HasCount(r)

\* the awaits on store.findOpen that open onAdd, onClose and onBigClose
FirstLookups == {"onAdd.findOpen", "onClose.findOpen", "onBigClose.findOpen"}

\* C14: a SmartVolAdd, a SmartClose at any timeframe or a SmartBigClose that
\* arrives while no position is open does nothing: no exchange call, no store
\* mutation, no notification, the closeCount state neither created nor
\* changed; and it returns, unless the findOpen lookup itself fails.
C14_NoPositionIsNoOp ==
  LET r == handlers[1]
  IN (r.method \in {"onAdd", "onClose", "onBigClose"} /\ ~r.pre.pos.isOpen) =>
       /\ r.eff = <<>>
       /\ PositionOf(r) = r.pre.pos
       /\ CountOf(r) = r.pre.closeCount
       /\ r.pc \in FirstLookups \cup {"done"}
       /\ r.result = "threw" => r.failedAt \in FirstLookups
       /\ (r.pc = "done" /\ r.failedAt = "") => r.result = "returned"

\* a SmartBigClose found no position and returned
C14_Witness ==
  LET r == handlers[1]
  IN /\ r.method = "onBigClose" /\ ~r.pre.pos.isOpen
     /\ r.result = "returned" /\ r.eff = <<>>

\* the USD sizing is unresolved: undefined, NaN or 0
UsdUnresolved(u) == u.nan \/ u.v = 0

\* the call, if it has returned, ended with the notification of its branch
EndsNotified(r) ==
  r.result = "returned" =>
    /\ r.eff # <<>>
    /\ r.eff[Len(r.eff)] = Notify(r.note)

\* C15: with baseUsd unresolved a SmartOpen that finds no position, and with
\* addUsd unresolved a SmartOpen or SmartVolAdd that finds one, aborts with a
\* notification: no store mutation, the position and its fillsCount as before,
\* the closeCount state neither created nor changed, and no throw other than
\* that of a failed awaited call.
C15_BadUsdLeavesState ==
  LET r == handlers[1]
      NoStateChange ==
        /\ \A i \in 1..Len(r.eff) : r.eff[i].op \notin StoreOps
        /\ PositionOf(r) = r.pre.pos
        /\ CountOf(r) = r.pre.closeCount
        /\ EndsNotified(r)
        /\ (r.pc = "done" /\ r.failedAt = "") => r.result = "returned"
  IN /\ (/\ r.method = "onOpen" /\ ~r.pre.pos.isOpen
         /\ UsdUnresolved(botCfg[r.bot].baseUsd)) =>
          /\ NoStateChange
          /\ (r.result = "returned" /\ r.tf \in {NoTf, "1h"} /\ ~WithinBlock(r)) =>
               r.note = "baseUsd undefined"
     /\ (/\ r.method \in {"onOpen", "onAdd"} /\ r.pre.pos.isOpen
         /\ UsdUnresolved(botCfg[r.bot].addUsd)) =>
          /\ NoStateChange
          /\ Trading(r) = <<>>
          /\ (r.result = "returned" /\ r.method = "onAdd") => r.note = "addUsd undefined"

\* a SmartOpen with baseUsd NaN has returned after its notification, no
\* position opened
C15_Witness ==
  LET r == handlers[1]
  IN /\ r.method = "onOpen" /\ r.result = "returned"
     /\ botCfg[r.bot].baseUsd.nan
     /\ r.note = "baseUsd undefined"
     /\ ~PositionOf(r).isOpen /\ ~HasCount(r)

\* a SmartVolAdd with addUsd NaN has returned after its notification, the
\* position as it was
C15_WitnessAdd ==
  LET r == handlers[1]
  IN /\ r.method = "onAdd" /\ r.result = "returned"
     /\ botCfg[r.bot].addUsd.nan
     /\ r.eff = <<Notify("addUsd undefined")>>
     /\ PositionOf(r) = r.pre.pos /\ PositionOf(r).isOpen

\* C16: a SmartOpen that returns has placed a buy order only if it has also
\* persisted the position (store.open) or the fill (store.add); a SmartOpen
\* that aborts on a guard places no order.
C16_NoOrderOnAbort ==
  LET r == handlers[1]
  IN (r.method = "onOpen" /\ r.result = "returned") =>
       /\ Orders(r) # <<>> =>
            \E i \in 1..Len(r.eff) : r.eff[i].op \in {"store.open", "store.add"}
       /\ r.note \in {"entry blocked", "timeframe skipped", "not allowed",
                      "baseUsd undefined"} => Orders(r) = <<>>

\* C17: in every state, a key whose pair has no open position has no
\* closeCount state with a count above 0, so that a position that is opened
\* starts at closeCount 0.
C17_NoCountWithoutPosition ==
  \A p \in Pairs :
    ~store[p].isOpen => CloseCountOf(getStateKey(p[1], p[2])) <= 0

\* the call found a position that has room for a fill, and the bot's add
\* allocation is resolved
RoomToAdd(r) ==
  /\ r.method \in {"onOpen", "onAdd"}
  /\ r.pre.pos.isOpen
  /\ r.pre.pos.fillsCount < ConfiguredMaxFills(r.bot)
  /\ ~UsdUnresolved(botCfg[r.bot].addUsd)

\* size (in 1e-8 tokens) is what usd buys at price
IsSizeOf(size, usd, price) ==
  /\ size * price <= usd * (10 ^ 8)
  /\ usd * (10 ^ 8) < (size + 1) * price

\* the call has added one fill: one buy order sized from addUsd, then
\* store.add; one fill more, the closeCount state as it was
AddedOneFill(r) ==
  /\ Len(Trading(r)) = 2
  /\ Trading(r)[1].op = "placeMarket" /\ Trading(r)[1].side = "buy"
  /\ ~Trading(r)[1].size.nan
  /\ IsSizeOf(Trading(r)[1].size.v, botCfg[r.bot].addUsd.v, r.price)
  /\ Trading(r)[2].op = "store.add"
  /\ PositionOf(r).isOpen
  /\ PositionOf(r).fillsCount = r.pre.pos.fillsCount + 1
  /\ PositionOf(r).amountUsd = r.pre.pos.amountUsd + botCfg[r.bot].addUsd.v
  /\ CountOf(r) = r.pre.closeCount

\* C18 as stated: with a position open and fillsCount < maxFills, a SmartOpen
\* or a SmartVolAdd that returns has placed one buy order sized from the add
\* allocation and persisted the fill: fillsCount + 1, closeCount unchanged.
C18_Original ==
  LET r == handlers[1]
  IN (RoomToAdd(r) /\ r.result = "returned") => AddedOneFill(r)

\* the SmartOpen is let through to the add: not inside an entry block, and at
\* timeframe 1h or with none
OpenIsLetThrough(r) == ~WithinBlock(r) /\ r.tf \in {NoTf, "1h"}

\* C18 (amended): with a position open and fillsCount < maxFills, a SmartVolAdd
\* at any timeframe, and a SmartOpen that is not entry-blocked and is at
\* timeframe 1h (or has none), places one buy order sized from the add
\* allocation and persists the fill: fillsCount + 1, closeCount unchanged; a
\* SmartOpen that is entry-blocked or at another timeframe places no order,
\* leaves the position as it was and only notifies.
C18_AddsOneFill ==
  LET r == handlers[1]
  IN (RoomToAdd(r) /\ r.result = "returned") =>
       /\ (r.method = "onAdd" \/ OpenIsLetThrough(r)) => AddedOneFill(r)
       /\ (r.method = "onOpen" /\ ~OpenIsLetThrough(r)) =>
            /\ Trading(r) = <<>>
            /\ PositionOf(r) = r.pre.pos
            /\ CountOf(r) = r.pre.closeCount
            /\ r.eff = <<Notify(r.note)>>
            /\ r.note = IF WithinBlock(r) THEN "entry blocked" ELSE "timeframe skipped"

\* a SmartOpen at 1h found a position of one fill with closeCount 1 and added
\* the second fill at another price
C18_Witness ==
  LET r == handlers[1]
  IN /\ r.method = "onOpen" /\ r.result = "returned" /\ r.tf = "1h"
     /\ r.pre.pos.isOpen /\ r.pre.pos.fillsCount = 1 /\ r.pre.closeCount = 1
     /\ r.price # r.pre.pos.avgEntryPrice
     /\ AddedOneFill(r)

\* a SmartOpen at 4h found a position with room for a fill and only notified
C18_WitnessSkipped ==
  LET r == handlers[1]
  IN /\ RoomToAdd(r) /\ r.method = "onOpen" /\ r.tf = "4h" /\ r.result = "returned"
     /\ r.eff = <<Notify("timeframe skipped")>>

\* a SmartOpen at another timeframe than 1h that found no position
OffTimeframeOpen(r) ==
  /\ r.method = "onOpen"
  /\ r.tf \notin {NoTf, "1h"}
  /\ ~r.pre.pos.isOpen

\* the entry block of the call's key is what it was when the call began: in
\* force until the same time, or not in force (an expired entry may be dropped)
BlockUnchanged(r) ==
  LET until == BlockedUntilOf(getStateKey(r.bot, r.symbol))
  IN IF r.pre.blockedUntil > r.pre.at
     THEN until = r.pre.blockedUntil
     ELSE until <= r.pre.at

\* no exchange call, no store mutation, the position, the closeCount state and
\* the entry block as they were
NothingChanged(r) ==
  /\ Trading(r) = <<>>
  /\ PositionOf(r) = r.pre.pos
  /\ CountOf(r) = r.pre.closeCount
  /\ BlockUnchanged(r)

\* C19 as stated: a SmartOpen at a timeframe other than 1h, with no position
\* open, does nothing at all: no order, no store mutation, no closeCount or
\* block state change, and no notification.
C19_Original ==
  LET r == handlers[1]
  IN OffTimeframeOpen(r) =>
       /\ NothingChanged(r)
       /\ r.eff = <<>>
       /\ r.pc # "notify"

\* C19 (amended): a SmartOpen at a timeframe other than 1h, with no position
\* open, places no order, mutates no store and changes neither closeCount nor
\* block state, but is not silent: it sends one notification (that the
\* timeframe was skipped or, inside an entry block, that entry is blocked).
C19_IgnoredButNotified ==
  LET r == handlers[1]
  IN OffTimeframeOpen(r) =>
       /\ NothingChanged(r)
       /\ r.pc \in {"notify", "done"}
       /\ r.note = IF WithinBlock(r) THEN "entry blocked" ELSE "timeframe skipped"
       /\ r.result = "returned" => r.eff = <<Notify(r.note)>>
       /\ r.result = "threw" => (r.eff = <<>> /\ r.failedAt = "notify")

\* a SmartOpen at 4h, outside any block and with no position, has returned
\* after notifying that the timeframe was skipped
C19_Witness ==
  LET r == handlers[1]
  IN /\ OffTimeframeOpen(r) /\ r.tf = "4h" /\ ~WithinBlock(r)
     /\ r.result = "returned"
     /\ r.eff = <<Notify("timeframe skipped")>>

SyncMethods == {"onFixedShortSynchronization", "onLiveShortSynchronization"}

\* C20: a fixed-short or live-short synchronization signal at timeframe 1h (an
\* absent timeframe counts as 1h) sets blockedUntil of its key to the time of
\* the signal plus one hour and notifies; at any other timeframe it leaves the
\* block entry as it was, sends no notification and returns; at no timeframe
\* does it call the exchange or the store or change the closeCount state.
C20_SyncBlocksOnlyAt1h ==
  LET r == handlers[1]
      until == BlockedUntilOf(getStateKey(r.bot, r.symbol))
  IN r.method \in SyncMethods =>
       /\ Trading(r) = <<>>
       /\ PositionOf(r) = r.pre.pos
       /\ CountOf(r) = r.pre.closeCount
       /\ r.tf \in {NoTf, "1h"} =>
            /\ until = r.pre.at + 3600000
            /\ r.pc \in {"notify", "done"}
            /\ r.result = "returned" => r.eff = <<Notify("entry blocked for 1h")>>
       /\ r.tf \notin {NoTf, "1h"} =>
            /\ until = r.pre.blockedUntil
            /\ r.eff = <<>>
            /\ r.pc = "done"
            /\ r.result = "returned"

\* a live-short synchronization at 1h, half an hour into a block, has moved
\* blockedUntil to an hour after itself
C20_Witness ==
  LET r == handlers[1]
  IN /\ r.method = "onLiveShortSynchronization" /\ r.tf = "1h"
     /\ r.result = "returned"
     /\ r.pre.blockedUntil > r.pre.at
     /\ BlockedUntilOf(getStateKey(r.bot, r.symbol)) = r.pre.at + 3600000
     /\ BlockedUntilOf(getStateKey(r.bot, r.symbol)) > r.pre.blockedUntil

\* a fixed-short synchronization at 4h, half an hour into a block, has left
\* the block as it was
C20_WitnessIgnored ==
  LET r == handlers[1]
  IN /\ r.method = "onFixedShortSynchronization" /\ r.tf = "4h"
     /\ r.result = "returned"
     /\ r.pre.blockedUntil > r.pre.at
     /\ BlockedUntilOf(getStateKey(r.bot, r.symbol)) = r.pre.blockedUntil

\* ------------------------------------------------------------------- C21
\* the call that takes the step, if a call does
ActingPairs == {PairOf(handlers'[h]) : h \in {g \in DOMAIN handlers : handlers'[g].pc # "idle"}}

\* the closeCount state and the entry block of pair p are what they were
StateKept(p) ==
  /\ CloseCountOf(getStateKey(p[1], p[2]))' = CloseCountOf(getStateKey(p[1], p[2]))
  /\ BlockedUntilOf(getStateKey(p[1], p[2]))' = BlockedUntilOf(getStateKey(p[1], p[2]))

\* pairs p and q have their closeCount state or their block entry in common
SharedEntry(p, q) ==
  /\ getStateKey(p[1], p[2]) = getStateKey(q[1], q[2])
  /\ getStateKey(p[1], p[2]) \in DOMAIN partialCloseStates \cup DOMAIN entryBlockStates

\* C21: strategy state is isolated per (botName, symbol) pair, names holding
\* ':' included: a step of a call for pair (b,s) leaves the closeCount state and
\* the entry-block state of every other pair unchanged, and no two distinct
\* pairs ever share a closeCount or block entry.
C21_StateIsolatedPerPair ==
  [][/\ \A p \in KeyPairs : p \notin ActingPairs => StateKept(p)
     /\ \A p \in KeyPairs : \A q \in KeyPairs \ {p} : ~SharedEntry(p, q)']_vars

\* ------------------------------------------------------------------- C22
\* a 1h SmartClose that found the position open with closeCount 1 and is past
\* its lookup of the position
SecondClose(r) ==
  /\ r.method = "onClose"
  /\ TimeframeOrDefault(r.tf) = "1h"
  /\ r.pre.pos.isOpen
  /\ r.pre.closeCount = 1
  /\ r.pc # "onClose.findOpen"
  /\ r.failedAt # "onClose.findOpen"

\* the sell order of the call failed
SellFailed(r) == r.result = "threw" /\ r.failedAt = "onClose.placeMarket"

\* C22: the second 1h SmartClose (closeCount 1 -> 2) places its sell order for
\* half of the position and nothing else: no flash close and no store call, so
\* the stored position stays open with fillsCount, amountUsd and avgEntryPrice
\* as they were; the count is 2 once the order is placed; if the sell order
\* fails the call throws with the count still 1 and no order placed, the state
\* in which the next 1h SmartClose takes the 50% branch again.
C22_SecondCloseKeepsStore ==
  LET r == handlers[1]
  IN SecondClose(r) =>
       /\ PositionOf(r) = r.pre.pos
       /\ \/ Trading(r) = <<>> /\ CountOf(r) = 1
          \/ /\ Len(Trading(r)) = 1
             /\ Trading(r)[1] = PlaceMarket("sell", Num(CloseTokens(r.pre.pos)))
             /\ IsHalfOf(Trading(r)[1].size.v, r.pre.pos)
             /\ CountOf(r) = 2
       /\ r.pc = "done" /\ Trading(r) = <<>> => SellFailed(r)
       /\ SellFailed(r) => Trading(r) = <<>>

\* the sell order of a second SmartClose failed: the call threw, the position of
\* two fills is open and the count is 1
C22_Witness ==
  LET r == handlers[1]
  IN /\ SecondClose(r)
     /\ SellFailed(r)
     /\ PositionOf(r).isOpen
     /\ PositionOf(r).fillsCount = 2
     /\ CountOf(r) = 1

\* a second SmartClose returned having sold half of a position of two fills
C22_WitnessSold ==
  LET r == handlers[1]
  IN /\ SecondClose(r)
     /\ r.result = "returned"
     /\ Len(Orders(r)) = 1
     /\ PositionOf(r).fillsCount = 2
     /\ CountOf(r) = 2

\* ------------------------------------------------------------------- C23
\* positions in the registry of the bots the symbol filter admits
AdmittedBots ==
  {j \in 1..Len(registry) : FilterAllows(registry[j], router.alert.symbol)}

\* the calls made so far went to admitted bots, each once, in registry order;
\* a call is awaited only when every admitted bot before it has returned or
\* thrown; and handle is done only when every admitted bot has been called
OneByOneInOrder ==
  router.alert.kind = "smartvol" =>
    /\ \A k \in 1..Len(router.calls) :
         /\ router.calls[k].bot \in AdmittedBots
         /\ router.calls[k].entry = "process"
         /\ router.calls[k].outcome \in {"returned", "threw"}
         /\ \A m \in (k + 1)..Len(router.calls) :
              router.calls[k].bot < router.calls[m].bot
    /\ router.pc = "await" =>
         /\ router.bots[router.i] \in AdmittedBots
         /\ CalledBots = {j \in AdmittedBots : j < router.bots[router.i]}
    /\ router.pc = "done" => CalledBots = AdmittedBots

\* handle has been called with a valid smartvol alert
HandlingSmartVol == router.pc # "idle" /\ router.alert.kind = "smartvol"

\* handle has completed, every admitted bot invoked
HandledAll ==
  /\ router.pc = "done"
  /\ router.result = "returned"
  /\ CalledBots = AdmittedBots
  /\ Len(router.calls) = Cardinality(AdmittedBots)

\* C23: for a valid smartvol alert every bot its symbol filter admits is invoked
\* exactly once, in registry order, a bot's invocation starting only after
\* that of the bot before it has returned or failed; and, every bot call
\* returning or throwing in the end, handle eventually completes having
\* invoked every admitted bot.
C23_EachAdmittedBotOnceInOrder ==
  /\ []OneByOneInOrder
  /\ HandlingSmartVol ~> HandledAll

\* handle is done for a smartvol alert over three bots: the first and the third
\* were invoked, in that order, the filter of the second did not admit the
\* symbol, and the first bot's call had thrown
C23_Witness ==
  /\ HandledAll
  /\ router.alert.kind = "smartvol"
  /\ Len(registry) = 3
  /\ AdmittedBots = {1, 3}
  /\ router.calls[1].bot = 1
  /\ router.calls[1].outcome = "threw"
  /\ router.calls[2].bot = 3

====
